---- MODULE Spec2Model ----
(***************************************************************************)
(* Model of the two utilities of the repository:                           *)
(*   scripts/version.py  - the Version Synchronizer (status/sync/bump/set) *)
(*   formats.py          - the Format Reporter (fetch, classify, report)   *)
(* Text is modelled as sequences of one-character strings, so that the     *)
(* regular expressions, str.split, int() and the f-string formatting are   *)
(* computed as the Python code computes them.                              *)
(***************************************************************************)
EXTENDS Integers, Sequences, FiniteSets, TLC

VARIABLES
    files,      \* the three manifest files on disk (version.py:22-26)
    pre,        \* the manifest files as they were when the last command started
    cmd,        \* the last command line given to version.py
    res,        \* what the last command did: outcome, exit status, output
    bumps,      \* number of bump commands run so far
    fpc,        \* formats.py: position in main()
    cookies,    \* formats.py: result of check_cookies()
    fetch,      \* formats.py: what YoutubeDL.extract_info did
    fout,       \* formats.py: what was printed
    fexit,      \* formats.py: exit status
    fetchCalls  \* formats.py: number of calls of extract_info

vvars == <<files, pre, cmd, res, bumps>>
fvars == <<fpc, cookies, fetch, fout, fexit, fetchCalls>>
vars == <<files, pre, cmd, res, bumps, fpc, cookies, fetch, fout, fexit, fetchCalls>>

----------------------------------------------------------------------------
(* Bounds *)

\* bump commands in one behaviour (versions grow without bound otherwise)
MaxBumps == 2
\* longest list of format descriptors a fetch returns
MaxFormats == 3

----------------------------------------------------------------------------
(* Characters and Python string primitives *)

Digits == {"0", "1", "2", "3", "4", "5", "6", "7", "8", "9"}

\* "u0663" stands for ARABIC-INDIC DIGIT THREE: a non-ASCII decimal digit,
\* which \d of a str pattern matches and int() accepts.
UnicodeDigits == {"u0663"}

ReDigit(c) == c \in Digits \cup UnicodeDigits

ReSpace(c) == c \in {" ", "\n", "\t"}

DigitChar == <<"0", "1", "2", "3", "4", "5", "6", "7", "8", "9">>

DigitValue(c) ==
    CASE c = "0" -> 0 [] c = "1" -> 1 [] c = "2" -> 2 [] c = "3" -> 3
      [] c = "4" -> 4 [] c = "5" -> 5 [] c = "6" -> 6 [] c = "7" -> 7
      [] c = "8" -> 8 [] c = "9" -> 9 [] c = "u0663" -> 3

\* Python values that a JSON "version" field or a command argument can hold:
\* a str or None.
Str(s) == [t |-> "str", s |-> s]
None == [t |-> "none", s |-> <<>>]

\* f"{version}": str() of the value
PyFormat(v) == IF v.t = "none" THEN <<"N", "o", "n", "e">> ELSE v.s

\* truthiness of a str-or-None value (if target_version:)
Truthy(v) == v.t = "str" /\ Len(v.s) > 0

RECURSIVE SplitFrom(_, _, _, _)
SplitFrom(s, sep, i, cur) ==
    IF i > Len(s) THEN <<cur>>
    ELSE IF s[i] = sep THEN <<cur>> \o SplitFrom(s, sep, i + 1, <<>>)
    ELSE SplitFrom(s, sep, i + 1, Append(cur, s[i]))

\* str.split(sep) for a one-character separator
split(s, sep) == SplitFrom(s, sep, 1, <<>>)

RECURSIVE SkipSpace(_, _)
\* first index >= i that holds no whitespace (Len+1 when there is none)
SkipSpace(s, i) ==
    IF i <= Len(s) /\ ReSpace(s[i]) THEN SkipSpace(s, i + 1) ELSE i

RECURSIVE SkipSpaceBack(_, _)
SkipSpaceBack(s, i) ==
    IF i >= 1 /\ ReSpace(s[i]) THEN SkipSpaceBack(s, i - 1) ELSE i

\* str.strip()
strip(s) == SubSeq(s, SkipSpace(s, 1), SkipSpaceBack(s, Len(s)))

RECURSIVE IntBodyValue(_, _, _)
IntBodyValue(b, i, acc) ==
    IF i > Len(b) THEN acc
    ELSE IF b[i] = "_" THEN IntBodyValue(b, i + 1, acc)
    ELSE IntBodyValue(b, i + 1, acc * 10 + DigitValue(b[i]))

\* the digits of an integer literal: decimal digits, single underscores
\* allowed between two digits
IntBodyOk(b) ==
    /\ Len(b) > 0
    /\ \A i \in 1..Len(b) :
          \/ ReDigit(b[i])
          \/ /\ b[i] = "_"
             /\ i > 1
             /\ i < Len(b)
             /\ ReDigit(b[i - 1])
             /\ ReDigit(b[i + 1])

\* int(s) of a str: surrounding whitespace is stripped, one sign allowed;
\* ok = FALSE is ValueError
int(s) ==
    LET t == strip(s)
        signed == Len(t) > 0 /\ t[1] \in {"+", "-"}
        b == IF signed THEN Tail(t) ELSE t
    IN  IF ~IntBodyOk(b) THEN [ok |-> FALSE, val |-> 0]
        ELSE [ok |-> TRUE,
              val |-> IF signed /\ t[1] = "-"
                      THEN 0 - IntBodyValue(b, 1, 0)
                      ELSE IntBodyValue(b, 1, 0)]

RECURSIVE NatToStr(_)
NatToStr(n) ==
    IF n < 10 THEN <<DigitChar[n + 1]>>
    ELSE NatToStr(n \div 10) \o <<DigitChar[(n % 10) + 1]>>

\* f"{n}" of an int
IntToStr(n) == IF n < 0 THEN <<"-">> \o NatToStr(0 - n) ELSE NatToStr(n)

Min(S) == CHOOSE x \in S : \A y \in S : x <= y

----------------------------------------------------------------------------
(* version.py: the manifest files *)

VERSION_FILES == {"npm", "tauri_cargo", "tauri_conf"}

\* A JSON manifest: absent, not parseable as JSON, or a document. A document
\* is its top-level "version" field (possibly missing) and all its other
\* fields (rest).
JsonAbsent == [st |-> "absent", hasVersion |-> FALSE, version |-> None, rest |-> "-"]
JsonInvalid == [st |-> "invalid", hasVersion |-> FALSE, version |-> None, rest |-> "-"]
JsonDoc(v, rest) == [st |-> "doc", hasVersion |-> TRUE, version |-> v, rest |-> rest]
JsonDocNoVersion(rest) == [st |-> "doc", hasVersion |-> FALSE, version |-> None, rest |-> rest]

\* Cargo.toml: absent or its text
CargoAbsent == [st |-> "absent", text |-> <<>>]
CargoText(t) == [st |-> "text", text |-> t]

\* results of a call: a value, or an exception
Ret(v) == [raised |-> FALSE, value |-> v]
Raise == [raised |-> TRUE, value |-> None]

VERSION == <<"v", "e", "r", "s", "i", "o", "n">>

RECURSIVE SkipNonQuote(_, _)
\* [^"]+ : first index >= i that holds a double quote (Len+1 when none)
SkipNonQuote(s, i) ==
    IF i <= Len(s) /\ s[i] # "\"" THEN SkipNonQuote(s, i + 1) ELSE i

\* ^ under re.MULTILINE
LineStart(s, i) == i = 1 \/ s[i - 1] = "\n"

\* the pattern version\s*=\s*"([^"]+)" tried at index i; gs..ge is group 1
ReMatchAt(s, i) ==
    LET a == SkipSpace(s, i + 7)
        b == SkipSpace(s, a + 1)
        e == SkipNonQuote(s, b + 1)
    IN  [ok |-> /\ i + 6 <= Len(s)
                /\ SubSeq(s, i, i + 6) = VERSION
                /\ a <= Len(s) /\ s[a] = "="
                /\ b <= Len(s) /\ s[b] = "\""
                /\ e > b + 1
                /\ e <= Len(s),
         gs |-> b + 1,
         ge |-> e - 1]

\* re.search(r'^version\s*=\s*"([^"]+)"', content, re.MULTILINE): the
\* leftmost match
ReSearchVersion(s) ==
    LET S == {i \in 1..Len(s) : LineStart(s, i) /\ ReMatchAt(s, i).ok}
    IN  IF S = {} THEN [ok |-> FALSE, gs |-> 0, ge |-> 0]
        ELSE ReMatchAt(s, Min(S))

read_cargo_version(f) ==
    LET m == ReSearchVersion(f.text)
    IN  IF f.st = "absent" THEN Raise
        ELSE IF m.ok THEN Ret(Str(SubSeq(f.text, m.gs, m.ge)))
        ELSE Raise

\* re.sub(..., count=1): the first match's quoted value is replaced; a text
\* without a match is written back as it is. (A version holding a backslash
\* would be read as a template escape; no input of the model holds one.)
write_cargo_version(f, version) ==
    LET m == ReSearchVersion(f.text)
    IN  IF m.ok
        THEN CargoText(SubSeq(f.text, 1, m.gs - 1) \o PyFormat(version)
                       \o SubSeq(f.text, m.ge + 1, Len(f.text)))
        ELSE f

\* json.loads(...).get("version", "0.0.0"); the same code reads package.json
\* and tauri.conf.json
read_package_json_version(f) ==
    IF f.st # "doc" THEN Raise
    ELSE IF f.hasVersion THEN Ret(f.version)
    ELSE Ret(Str(<<"0", ".", "0", ".", "0">>))

read_tauri_conf_version(f) ==
    IF f.st # "doc" THEN Raise
    ELSE IF f.hasVersion THEN Ret(f.version)
    ELSE Ret(Str(<<"0", ".", "0", ".", "0">>))

\* data["version"] = version; the document is written back
write_package_json_version(f, version) ==
    IF f.st # "doc" THEN [raised |-> TRUE, file |-> f]
    ELSE [raised |-> FALSE, file |-> JsonDoc(version, f.rest)]

write_tauri_conf_version(f, version) ==
    IF f.st # "doc" THEN [raised |-> TRUE, file |-> f]
    ELSE [raised |-> FALSE, file |-> JsonDoc(version, f.rest)]

Exists(f) == f.st # "absent"

\* set_all_versions: the files are written in order; an exception leaves the
\* files written so far as they are. wrote = the files whose tick was printed.
set_all_versions(fs, version) ==
    LET w1 == write_package_json_version(fs.npm, version)
        w3 == write_tauri_conf_version(fs.tauri_conf, version)
        f1 == IF Exists(fs.npm) THEN w1.file ELSE fs.npm
        r1 == Exists(fs.npm) /\ w1.raised
        f2 == IF Exists(fs.tauri_cargo)
              THEN write_cargo_version(fs.tauri_cargo, version)
              ELSE fs.tauri_cargo
        f3 == IF Exists(fs.tauri_conf) THEN w3.file ELSE fs.tauri_conf
        r3 == Exists(fs.tauri_conf) /\ w3.raised
    IN  IF r1 THEN [raised |-> TRUE, files |-> fs, wrote |-> {}]
        ELSE IF r3
        THEN [raised |-> TRUE,
              files |-> [npm |-> f1, tauri_cargo |-> f2, tauri_conf |-> fs.tauri_conf],
              wrote |-> {n \in {"npm", "tauri_cargo"} : Exists(fs[n])}]
        ELSE [raised |-> FALSE,
              files |-> [npm |-> f1, tauri_cargo |-> f2, tauri_conf |-> f3],
              wrote |-> {n \in VERSION_FILES : Exists(fs[n])}]

ReadByName(fs, n) ==
    CASE n = "npm" -> read_package_json_version(fs.npm)
      [] n = "tauri_cargo" -> read_cargo_version(fs.tauri_cargo)
      [] n = "tauri_conf" -> read_tauri_conf_version(fs.tauri_conf)

\* get_all_versions: the versions of the files that exist; a file that
\* exists and cannot be read raises
get_all_versions(fs) ==
    LET names == {n \in VERSION_FILES : Exists(fs[n])}
    IN  IF \E n \in names : ReadByName(fs, n).raised
        THEN [raised |-> TRUE, versions |-> <<>>]
        ELSE [raised |-> FALSE,
              versions |-> [n \in names |-> ReadByName(fs, n).value]]

\* bump_version with the slip of a minor bump that keeps the patch number
bump_version_keeps_patch(version, bump_type) ==
    IF version.t # "str" THEN Raise
    ELSE
    LET parts == split(version.s, ".")
    IN  IF Len(parts) # 3 THEN Raise
        ELSE
        LET major == int(parts[1])
            minor == int(parts[2])
            patch == int(parts[3])
            fmt(a, b, c) ==
                Str(IntToStr(a) \o <<".">> \o IntToStr(b) \o <<".">> \o IntToStr(c))
        IN  IF ~major.ok \/ ~minor.ok \/ ~patch.ok THEN Raise
            ELSE CASE bump_type = "major" -> Ret(fmt(major.val + 1, 0, 0))
                   [] bump_type = "minor" -> Ret(fmt(major.val, minor.val + 1, patch.val))
                   [] bump_type = "patch" -> Ret(fmt(major.val, minor.val, patch.val + 1))
                   [] OTHER -> Raise

bump_version(version, bump_type) ==
    IF version.t # "str" THEN Raise
    ELSE
    LET parts == split(version.s, ".")
    IN  IF Len(parts) # 3 THEN Raise
        ELSE
        LET major == int(parts[1])
            minor == int(parts[2])
            patch == int(parts[3])
            fmt(a, b, c) ==
                Str(IntToStr(a) \o <<".">> \o IntToStr(b) \o <<".">> \o IntToStr(c))
        IN  IF ~major.ok \/ ~minor.ok \/ ~patch.ok THEN Raise
            ELSE CASE bump_type = "major" -> Ret(fmt(major.val + 1, 0, 0))
                   [] bump_type = "minor" -> Ret(fmt(major.val, minor.val + 1, 0))
                   [] bump_type = "patch" -> Ret(fmt(major.val, minor.val, patch.val + 1))
                   [] OTHER -> Raise

----------------------------------------------------------------------------
(* version.py: the commands *)

\* What a command did. outcome: "ok" (returned), "exit1" (sys.exit(1)) or
\* "raise" (uncaught exception; the interpreter exits with status 1).
\* version = the value handed to set_all_versions; report, suggest and shown
\* are the output of status.
Result(outcome, wrote, version, report, suggest, shown) ==
    [outcome |-> outcome,
     exit |-> IF outcome = "ok" THEN 0 ELSE 1,
     wrote |-> wrote,
     version |-> version,
     report |-> report,
     suggest |-> suggest,
     shown |-> shown]

NoResult == Result("ok", {}, None, "", FALSE, <<>>)

WriteResult(w, version) ==
    Result(IF w.raised THEN "raise" ELSE "ok", w.wrote, version, "", FALSE, <<>>)

Failed(outcome) == Result(outcome, {}, None, "", FALSE, <<>>)

cmd_status(fs) ==
    LET g == get_all_versions(fs)
        unique_versions == {g.versions[n] : n \in DOMAIN g.versions}
    IN  IF g.raised THEN Failed("raise")
        \* max() of an empty sequence: ValueError
        ELSE IF DOMAIN g.versions = {} THEN Failed("raise")
        ELSE IF Cardinality(unique_versions) = 1
        THEN Result("ok", {}, None, "synchronized", FALSE, g.versions)
        ELSE Result("ok", {}, None, "out_of_sync", TRUE, g.versions)

cmd_sync(fs, target_version) ==
    LET src == read_package_json_version(fs.npm)
        version == IF Truthy(target_version) THEN target_version ELSE src.value
        w == set_all_versions(fs, version)
    IN  IF ~Truthy(target_version) /\ src.raised
        THEN [files |-> fs, res |-> Failed("raise")]
        ELSE [files |-> w.files, res |-> WriteResult(w, version)]

\* cmd_bump with the slip of syncing the files to the current version before
\* the new one is computed
cmd_bump_writes_first(fs, bump_type) ==
    LET current == read_package_json_version(fs.npm)
        new_version == bump_version(current.value, bump_type)
        w0 == set_all_versions(fs, current.value)
        w == set_all_versions(w0.files, new_version.value)
    IN  IF current.raised THEN [files |-> fs, res |-> Failed("raise")]
        ELSE IF new_version.raised THEN [files |-> w0.files, res |-> Failed("raise")]
        ELSE [files |-> w.files, res |-> WriteResult(w, new_version.value)]

cmd_bump(fs, bump_type) ==
    LET current == read_package_json_version(fs.npm)
        new_version == bump_version(current.value, bump_type)
        w == set_all_versions(fs, new_version.value)
    IN  IF current.raised THEN [files |-> fs, res |-> Failed("raise")]
        ELSE IF new_version.raised THEN [files |-> fs, res |-> Failed("raise")]
        ELSE [files |-> w.files, res |-> WriteResult(w, new_version.value)]

RECURSIVE SkipDigits(_, _)
\* \d+ : first index >= i that holds no digit (Len+1 when none)
SkipDigits(s, i) ==
    IF i <= Len(s) /\ ReDigit(s[i]) THEN SkipDigits(s, i + 1) ELSE i

\* re.match(r"^\d+\.\d+\.\d+$", version): without re.MULTILINE, $ matches at
\* the end of the string and just before a newline that ends the string
ReMatchXYZ(s) ==
    LET a == SkipDigits(s, 1)
        b == SkipDigits(s, a + 1)
        c == SkipDigits(s, b + 1)
    IN  /\ a > 1
        /\ a <= Len(s) /\ s[a] = "."
        /\ b > a + 1
        /\ b <= Len(s) /\ s[b] = "."
        /\ c > b + 1
        /\ \/ c = Len(s) + 1
           \/ c = Len(s) /\ s[c] = "\n"

cmd_set(fs, version) ==
    LET w == set_all_versions(fs, version)
    IN  IF ~ReMatchXYZ(version.s)
        THEN [files |-> fs, res |-> Failed("exit1")]
        ELSE [files |-> w.files, res |-> WriteResult(w, version)]

----------------------------------------------------------------------------
(* version.py: inputs *)

V_0_1_0 == <<"0", ".", "1", ".", "0">>
V_0_2_0 == <<"0", ".", "2", ".", "0">>
V_0_0_9 == <<"0", ".", "0", ".", "9">>
V_1_2_3 == <<"1", ".", "2", ".", "3">>
V_2_0_0 == <<"2", ".", "0", ".", "0">>
V_1_2 == <<"1", ".", "2">>
V_1_2_3_4 == <<"1", ".", "2", ".", "3", ".", "4">>
V_v1_2_3 == <<"v", "1", ".", "2", ".", "3">>
V_1_2_x == <<"1", ".", "2", ".", "x">>
V_1_2_3_nl == <<"1", ".", "2", ".", "3", "\n">>
V_sp_1_2_3 == <<" ", "1", ".", "2", ".", "3">>
V_u3_0_0 == <<"u0663", ".", "0", ".", "0">>

\* [p] / version = "0.1.0" / name = "x" / [d] / version = "9"
CargoTwoVersionLines ==
    <<"[", "p", "]", "\n",
      "v", "e", "r", "s", "i", "o", "n", " ", "=", " ", "\"", "0", ".", "1", ".", "0", "\"", "\n",
      "n", "a", "m", "e", " ", "=", " ", "\"", "x", "\"", "\n",
      "[", "d", "]", "\n",
      "v", "e", "r", "s", "i", "o", "n", " ", "=", " ", "\"", "9", "\"", "\n">>

\* [p] / name = "x"
CargoNoVersionLine ==
    <<"[", "p", "]", "\n", "n", "a", "m", "e", " ", "=", " ", "\"", "x", "\"", "\n">>

\* version="1.2.3"
CargoCompact ==
    <<"v", "e", "r", "s", "i", "o", "n", "=", "\"", "1", ".", "2", ".", "3", "\"", "\n">>

InitNpm ==
    {JsonAbsent, JsonInvalid, JsonDocNoVersion("A"), JsonDoc(None, "A"),
     JsonDoc(Str(<<>>), "A"), JsonDoc(Str(V_0_1_0), "A"), JsonDoc(Str(V_0_0_9), "A"),
     JsonDoc(Str(V_1_2), "A"), JsonDoc(Str(V_1_2_x), "A"), JsonDoc(Str(V_sp_1_2_3), "A")}

InitCargo ==
    {CargoAbsent, CargoText(CargoTwoVersionLines), CargoText(CargoNoVersionLine),
     CargoText(CargoCompact)}

InitConf ==
    {JsonAbsent, JsonInvalid, JsonDocNoVersion("B"), JsonDoc(Str(V_0_1_0), "B"),
     JsonDoc(Str(V_0_2_0), "B")}

\* argparse: the optional argument of sync is None when it is left out
SyncTargets == {None, Str(<<>>), Str(V_2_0_0), Str(V_v1_2_3)}

BumpTypes == {"major", "minor", "patch"}

SetVersions ==
    {Str(V_1_2_3), Str(V_1_2), Str(V_1_2_3_4), Str(V_v1_2_3), Str(V_1_2_x),
     Str(V_1_2_3_nl), Str(V_u3_0_0), Str(<<>>)}

----------------------------------------------------------------------------
(* formats.py: values of the fetch result *)

\* One key of a dict returned by the library: missing, null (None), a str or
\* a number.
Missing == [k |-> "missing", s |-> <<>>, n |-> 0]
Null == [k |-> "null", s |-> <<>>, n |-> 0]
S(s) == [k |-> "str", s |-> s, n |-> 0]
N(n) == [k |-> "num", s |-> <<>>, n |-> n]

\* dict.get(key, default): the default stands in for a missing key only
Get(v, default) == IF v.k = "missing" THEN default ELSE v

\* bool(v)
Falsy(v) ==
    \/ v.k \in {"missing", "null"}
    \/ v.k = "num" /\ v.n = 0
    \/ v.k = "str" /\ v.s = <<>>

\* v or 0
OrZero(v) == IF Falsy(v) THEN N(0) ELSE v

\* a > b of two numbers; an operand that is None is TypeError (the model
\* gives height and abr numbers, None or nothing)
PyGt(a, b) ==
    IF a.k # "num" \/ b.k # "num" THEN [raised |-> TRUE, value |-> FALSE]
    ELSE [raised |-> FALSE, value |-> a.n > b.n]

\* f"{v:>6}": a str or a number formats; None is TypeError
FormatRaises(v) == v.k = "null"

startswith(s, p) == Len(s) >= Len(p) /\ SubSeq(s, 1, Len(p)) = p

\* sub in s
Contains(s, sub) ==
    \E i \in 1..(Len(s) - Len(sub) + 1) : SubSeq(s, i, i + Len(sub) - 1) = sub

UpperCase ==
    <<"A", "B", "C", "D", "E", "F", "G", "H", "I", "J", "K", "L", "M",
      "N", "O", "P", "Q", "R", "S", "T", "U", "V", "W", "X", "Y", "Z">>

LowerCase ==
    <<"a", "b", "c", "d", "e", "f", "g", "h", "i", "j", "k", "l", "m",
      "n", "o", "p", "q", "r", "s", "t", "u", "v", "w", "x", "y", "z">>

\* str.lower()
lower(s) ==
    [i \in 1..Len(s) |->
        IF \E j \in 1..26 : UpperCase[j] = s[i]
        THEN LowerCase[CHOOSE j \in 1..26 : UpperCase[j] = s[i]]
        ELSE s[i]]

NONE == <<"n", "o", "n", "e">>
AVC1 == <<"a", "v", "c", "1">>
M4A == <<"m4a">>

\* one format descriptor
Format(id, ext, vcodec, acodec, height, fps, abr) ==
    [format_id |-> id, ext |-> ext, vcodec |-> vcodec, acodec |-> acodec,
     height |-> height, fps |-> fps, abr |-> abr]

\* one printed line (a and b: the identifiers a line names)
Ln(name) == [line |-> name, a |-> <<>>, b |-> <<>>]
Ln1(name, a) == [line |-> name, a |-> a, b |-> <<>>]
Ln2(name, a, b) == [line |-> name, a |-> a, b |-> b]

----------------------------------------------------------------------------
(* formats.py: get_formats and print_formats *)

\* Hint with the two tests in the other order
HintLoginFirst(msg) ==
    IF \/ Contains(msg, <<"S", "i", "g", "n", " ", "i", "n">>)
       \/ Contains(lower(msg), <<"l", "o", "g", "i", "n">>)
    THEN <<Ln("hint_login")>>
    ELSE IF Contains(msg, <<"4", "0", "3">>) THEN <<Ln("hint_403")>>
    ELSE <<>>

\* the hint printed after the error message (formats.py:104-112)
Hint(msg) ==
    IF Contains(msg, <<"4", "0", "3">>) THEN <<Ln("hint_403")>>
    ELSE IF \/ Contains(msg, <<"S", "i", "g", "n", " ", "i", "n">>)
            \/ Contains(lower(msg), <<"l", "o", "g", "i", "n">>)
    THEN <<Ln("hint_login")>>
    ELSE <<>>

\* get_formats: what it prints for a fetch outcome f; it returns the info
\* record, or None when the fetch raised
get_formats(f, use_cookies) ==
    <<Ln(IF use_cookies THEN "use_cookies" ELSE "no_cookies"), Ln("url"), Ln("fetching")>>
    \o (IF f.kind = "raise" THEN <<Ln("error")>> \o Hint(f.msg) ELSE <<>>)

\* if info: in main()
InfoTruthy(f) == f.kind = "info"

IsVideo(f) ==
    LET vcodec == Get(f.vcodec, S(NONE))
    IN  vcodec # S(NONE) /\ vcodec.k # "null"

IsAudio(f) ==
    LET acodec == Get(f.acodec, S(NONE))
    IN  ~IsVideo(f) /\ acodec # S(NONE) /\ acodec.k # "null"

\* sort keys: (abr or 0) and (height or 0, fps or 0)
AudioKey(f) == <<OrZero(f.abr).n, 0>>
VideoKey(f) == <<OrZero(f.height).n, OrZero(f.fps).n>>

KeyGe(x, y) == x[1] > y[1] \/ (x[1] = y[1] /\ x[2] >= y[2])

\* sorted(..., reverse=True) is stable: x goes behind every element whose key
\* is not smaller
InsertDesc(sorted, x) ==
    LET n == Cardinality({i \in 1..Len(sorted) : KeyGe(sorted[i].key, x.key)})
    IN  SubSeq(sorted, 1, n) \o <<x>> \o SubSeq(sorted, n + 1, Len(sorted))

RECURSIVE SortDesc(_)
SortDesc(keyed) ==
    IF keyed = <<>> THEN <<>>
    ELSE InsertDesc(SortDesc(SubSeq(keyed, 1, Len(keyed) - 1)), keyed[Len(keyed)])

SortedAudio(audio_formats) ==
    SortDesc([i \in 1..Len(audio_formats) |->
                 [key |-> AudioKey(audio_formats[i]), f |-> audio_formats[i]]])

SortedVideo(video_formats) ==
    SortDesc([i \in 1..Len(video_formats) |->
                 [key |-> VideoKey(video_formats[i]), f |-> video_formats[i]]])

\* a table row raises when a None is formatted with a width
AudioRowRaises(f) ==
    FormatRaises(Get(f.format_id, S(<<"?">>))) \/ FormatRaises(Get(f.ext, S(<<"?">>)))

VideoRowRaises(f) ==
    \/ FormatRaises(Get(f.format_id, S(<<"?">>)))
    \/ FormatRaises(Get(f.ext, S(<<"?">>)))
    \/ FormatRaises(Get(f.fps, S(<<"?">>)))

RECURSIVE Rows(_, _, _)
\* the rows of a table, up to the first one that raises
Rows(sorted, i, video) ==
    IF i > Len(sorted) THEN [raised |-> FALSE, out |-> <<>>]
    ELSE IF (IF video THEN VideoRowRaises(sorted[i].f) ELSE AudioRowRaises(sorted[i].f))
    THEN [raised |-> TRUE, out |-> <<>>]
    ELSE LET rest == Rows(sorted, i + 1, video)
         IN  [raised |-> rest.raised,
              out |-> <<Ln1(IF video THEN "video_row" ELSE "audio_row",
                            Get(sorted[i].f.format_id, S(<<"?">>)).s)>> \o rest.out]

Table(sorted, video) ==
    LET rows == Rows(sorted, 1, video)
    IN  IF sorted = <<>> THEN [raised |-> FALSE, out |-> <<>>]
        ELSE [raised |-> rows.raised,
              out |-> <<Ln(IF video THEN "video_table" ELSE "audio_table")>> \o rows.out]

NoBest == [raised |-> FALSE, has |-> FALSE, f |-> Format(Missing, Missing, Missing, Missing, Missing, Missing, Missing)]

RECURSIVE BestVideo(_, _, _)
\* formats.py:198-202
BestVideo(video_formats, i, best) ==
    IF i > Len(video_formats) THEN best
    ELSE
    LET f == video_formats[i]
        gt == PyGt(Get(f.height, N(0)), Get(best.f.height, N(0)))
    IN  IF ~startswith(Get(f.vcodec, S(<<>>)).s, AVC1)
        THEN BestVideo(video_formats, i + 1, best)
        ELSE IF ~best.has
        THEN BestVideo(video_formats, i + 1, [raised |-> FALSE, has |-> TRUE, f |-> f])
        ELSE IF gt.raised THEN [raised |-> TRUE, has |-> best.has, f |-> best.f]
        ELSE IF gt.value
        THEN BestVideo(video_formats, i + 1, [raised |-> FALSE, has |-> TRUE, f |-> f])
        ELSE BestVideo(video_formats, i + 1, best)

RECURSIVE BestAudio(_, _, _)
\* formats.py:204-208
BestAudio(audio_formats, i, best) ==
    IF i > Len(audio_formats) THEN best
    ELSE
    LET f == audio_formats[i]
        gt == PyGt(Get(f.abr, N(0)), Get(best.f.abr, N(0)))
    IN  IF Get(f.ext, Null) # S(M4A)
        THEN BestAudio(audio_formats, i + 1, best)
        ELSE IF ~best.has
        THEN BestAudio(audio_formats, i + 1, [raised |-> FALSE, has |-> TRUE, f |-> f])
        ELSE IF gt.raised THEN [raised |-> TRUE, has |-> best.has, f |-> best.f]
        ELSE IF gt.value
        THEN BestAudio(audio_formats, i + 1, [raised |-> FALSE, has |-> TRUE, f |-> f])
        ELSE BestAudio(audio_formats, i + 1, best)

\* formats.py:192-221: the recommendations
Recommend(video_formats, audio_formats) ==
    LET best_video == BestVideo(video_formats, 1, NoBest)
        best_audio == BestAudio(audio_formats, 1, NoBest)
        head == <<Ln("rule"), Ln("rec_header")>>
        generic == <<Ln("auto_select"), Ln("audio_only"), Ln("rule")>>
    IN  IF best_video.raised \/ best_audio.raised
        THEN [raised |-> TRUE, out |-> head]
        ELSE IF best_video.has /\ best_audio.has
        THEN \* best_video['format_id']: KeyError when the key is missing
             IF best_video.f.format_id.k = "missing" \/ best_audio.f.format_id.k = "missing"
             THEN [raised |-> TRUE, out |-> head \o <<Ln("best_pair_title")>>]
             ELSE [raised |-> FALSE,
                   out |-> head
                           \o <<Ln("best_pair_title"),
                                Ln2("best_pair", best_video.f.format_id.s,
                                    best_audio.f.format_id.s)>>
                           \o generic]
        ELSE [raised |-> FALSE, out |-> head \o generic]

\* print_formats(info): what is printed, and whether an exception ended it
print_formats(info) ==
    LET duration == Get(info.duration, N(0))
        formats == info.formats
        video_formats == SelectSeq(formats, IsVideo)
        audio_formats == SelectSeq(formats, IsAudio)
        audio == Table(SortedAudio(audio_formats), FALSE)
        video == Table(SortedVideo(video_formats), TRUE)
        rec == Recommend(video_formats, audio_formats)
        head == <<Ln("rule"), Ln("title"), Ln("uploader")>>
        head2 == head \o <<Ln("duration"), Ln("rule")>>
    IN  \* duration // 60 of None: TypeError
        IF duration.k # "num" THEN [raised |-> TRUE, out |-> head]
        ELSE IF formats = <<>>
        THEN [raised |-> FALSE, out |-> head2 \o <<Ln("no_formats")>>]
        ELSE IF audio.raised THEN [raised |-> TRUE, out |-> head2 \o audio.out]
        ELSE IF video.raised
        THEN [raised |-> TRUE, out |-> head2 \o audio.out \o video.out]
        ELSE [raised |-> rec.raised,
              out |-> head2 \o audio.out \o video.out \o rec.out]

----------------------------------------------------------------------------
(* formats.py: inputs *)

F137 == Format(S(<<"137">>), S(<<"mp4">>), S(<<"a", "v", "c", "1", ".", "6", "4">>), S(NONE), N(1080), N(30), Missing)
F136 == Format(S(<<"136">>), S(<<"mp4">>), S(<<"a", "v", "c", "1", ".", "4", "d">>), S(NONE), N(720), N(30), Missing)
F135 == Format(S(<<"135">>), S(<<"mp4">>), S(<<"a", "v", "c", "1", ".", "4", "d">>), S(NONE), Null, N(30), Missing)
F134 == Format(S(<<"134">>), S(<<"mp4">>), S(<<"a", "v", "c", "1", ".", "4", "d">>), Missing, Missing, N(30), Missing)
F248 == Format(S(<<"248">>), S(<<"webm">>), S(<<"v", "p", "9">>), S(NONE), N(2160), N(30), Missing)
F140 == Format(S(<<"140">>), S(M4A), S(NONE), S(<<"m", "p", "4", "a">>), Missing, Missing, N(128))
F139 == Format(S(<<"139">>), S(M4A), S(NONE), S(<<"m", "p", "4", "a">>), Null, Null, N(48))
F141 == Format(S(<<"141">>), S(M4A), Missing, S(<<"m", "p", "4", "a">>), Null, Null, Null)
F251 == Format(S(<<"251">>), S(<<"webm">>), S(NONE), S(<<"o", "p", "u", "s">>), Null, Null, N(160))
\* storyboard entries: no video codec and no audio codec
FSb0 == Format(S(<<"sb0">>), S(<<"mhtml">>), S(NONE), S(NONE), N(27), N(1), Missing)
FSb1 == Format(S(<<"sb1">>), S(<<"mhtml">>), Null, Missing, N(45), N(1), Missing)

Descriptors == {F137, F136, F135, F134, F248, F140, F139, F141, F251, FSb0, FSb1}

RECURSIVE Lists(_, _)
\* the lists over D of length at most n
Lists(D, n) ==
    IF n = 0 THEN {<<>>}
    ELSE LET shorter == Lists(D, n - 1)
         IN  shorter \cup {Append(l, d) : l \in {x \in shorter : Len(x) = n - 1}, d \in D}

FetchRaise(msg) == [kind |-> "raise", msg |-> msg, duration |-> Missing, formats |-> <<>>]
FetchInfo(duration, formats) == [kind |-> "info", msg |-> <<>>, duration |-> duration, formats |-> formats]
NoFetch == [kind |-> "none", msg |-> <<>>, duration |-> Missing, formats |-> <<>>]

ErrorMessages ==
    {<<"H", "T", "T", "P", " ", "4", "0", "3">>,
     <<"S", "i", "g", "n", " ", "i", "n", " ", "4", "0", "3">>,
     <<"S", "i", "g", "n", " ", "i", "n", " ", "n", "o", "w">>,
     <<"L", "o", "g", "i", "n", " ", "r", "e", "q", "u", "i", "r", "e", "d">>,
     <<"s", "i", "g", "n", " ", "i", "n">>,
     <<"t", "i", "m", "e", "d", " ", "o", "u", "t">>}

FetchOutcomes ==
    {FetchRaise(m) : m \in ErrorMessages}
    \cup {FetchInfo(N(212), l) : l \in Lists(Descriptors, MaxFormats)}
    \cup {FetchInfo(Null, <<F137, F140>>), FetchInfo(Missing, <<F137>>)}

----------------------------------------------------------------------------
(* version.py: the state machine. One action is one run of the script. *)

Command(name, arg, kind) == [name |-> name, arg |-> arg, kind |-> kind]

Init ==
    /\ files \in [npm : InitNpm, tauri_cargo : InitCargo, tauri_conf : InitConf]
    /\ pre = files
    /\ cmd = Command("none", None, "-")
    /\ res = NoResult
    /\ bumps = 0
    /\ fpc = "start"
    /\ cookies = FALSE
    /\ fetch = NoFetch
    /\ fout = <<>>
    /\ fexit = 0
    /\ fetchCalls = 0

Status ==
    /\ pre' = files
    /\ cmd' = Command("status", None, "-")
    /\ res' = cmd_status(files)
    /\ UNCHANGED <<files, bumps>>
    /\ UNCHANGED fvars

Sync(target_version) ==
    LET r == cmd_sync(files, target_version)
    IN  /\ pre' = files
        /\ cmd' = Command("sync", target_version, "-")
        /\ files' = r.files
        /\ res' = r.res
        /\ UNCHANGED bumps
        /\ UNCHANGED fvars

Bump(bump_type) ==
    LET r == cmd_bump(files, bump_type)
    IN  /\ bumps < MaxBumps
        /\ pre' = files
        /\ cmd' = Command("bump", None, bump_type)
        /\ files' = r.files
        /\ res' = r.res
        /\ bumps' = bumps + 1
        /\ UNCHANGED fvars

Set(version) ==
    LET r == cmd_set(files, version)
    IN  /\ pre' = files
        /\ cmd' = Command("set", version, "-")
        /\ files' = r.files
        /\ res' = r.res
        /\ UNCHANGED bumps
        /\ UNCHANGED fvars

Next ==
    \/ Status
    \/ \E t \in SyncTargets : Sync(t)
    \/ \E k \in BumpTypes : Bump(k)
    \/ \E v \in SetVersions : Set(v)

Spec == Init /\ [][Next]_vars

----------------------------------------------------------------------------
(* formats.py: the state machine, one run of main() *)

InitFormats ==
    /\ fpc = "start"
    /\ cookies = FALSE
    /\ fetch = NoFetch
    /\ fout = <<>>
    /\ fexit = 0
    /\ fetchCalls = 0
    /\ files = [npm |-> JsonAbsent, tauri_cargo |-> CargoAbsent, tauri_conf |-> JsonAbsent]
    /\ pre = files
    /\ cmd = Command("none", None, "-")
    /\ res = NoResult
    /\ bumps = 0

\* check_cookies(): whether cookies.txt exists and holds 100 bytes or more
CheckCookies ==
    /\ fpc = "start"
    /\ cookies' \in BOOLEAN
    /\ fout' = <<Ln(IF cookies' THEN "cookies_found" ELSE "cookies_warning")>>
    /\ fpc' = "checked"
    /\ UNCHANGED <<fetch, fexit, fetchCalls>>
    /\ UNCHANGED vvars

\* info = get_formats(url, use_cookies=has_cookies): one call of extract_info
GetFormats ==
    /\ fpc = "checked"
    /\ \E f \in FetchOutcomes :
          /\ fetch' = f
          /\ fout' = fout \o get_formats(f, cookies)
    /\ fetchCalls' = fetchCalls + 1
    /\ fpc' = "fetched"
    /\ UNCHANGED <<cookies, fexit>>
    /\ UNCHANGED vvars

\* if info: print_formats(info); an uncaught exception ends the run with
\* status 1
PrintFormats ==
    /\ fpc = "fetched"
    /\ InfoTruthy(fetch)
    /\ LET r == print_formats(fetch)
       IN  /\ fout' = fout \o r.out
           /\ fexit' = IF r.raised THEN 1 ELSE 0
           /\ fpc' = IF r.raised THEN "crashed" ELSE "done"
    /\ UNCHANGED <<cookies, fetch, fetchCalls>>
    /\ UNCHANGED vvars

\* else: the failure line and sys.exit(1)
MainFail ==
    /\ fpc = "fetched"
    /\ ~InfoTruthy(fetch)
    /\ fout' = Append(fout, Ln("failed"))
    /\ fexit' = 1
    /\ fpc' = "done"
    /\ UNCHANGED <<cookies, fetch, fetchCalls>>
    /\ UNCHANGED vvars

NextFormats == CheckCookies \/ GetFormats \/ PrintFormats \/ MainFail

SpecFormats == InitFormats /\ [][NextFormats]_vars

----------------------------------------------------------------------------
(* Properties of the Version Synchronizer (checked under Spec) *)

\* a decimal integer: one decimal digit or more, and nothing else
DecimalNumber(p) == Len(p) > 0 /\ \A i \in 1..Len(p) : ReDigit(p[i])

\* exactly three dot-separated decimal integers
StrictXYZ(s) ==
    LET parts == split(s, ".")
    IN  Len(parts) = 3 /\ \A i \in 1..3 : DecimalNumber(parts[i])

RECURSIVE DecValue(_)
DecValue(p) ==
    IF p = <<>> THEN 0
    ELSE 10 * DecValue(SubSeq(p, 1, Len(p) - 1)) + DigitValue(p[Len(p)])

\* the three numbers of a version string
TripleOf(s) ==
    LET parts == split(s, ".")
    IN  <<DecValue(parts[1]), DecValue(parts[2]), DecValue(parts[3])>>

\* a number written without leading zeros
Canonical(p) ==
    /\ Len(p) > 0
    /\ \A i \in 1..Len(p) : p[i] \in Digits
    /\ (Len(p) = 1 \/ p[1] # "0")

ExpectedBump(t, kind) ==
    CASE kind = "major" -> <<t[1] + 1, 0, 0>>
      [] kind = "minor" -> <<t[1], t[2] + 1, 0>>
      [] kind = "patch" -> <<t[1], t[2], t[3] + 1>>

\* an integer literal as Python reads one: optional surrounding whitespace,
\* an optional sign, digits, single underscores between digits
IntegerLiteral(p) ==
    \E a \in 1..Len(p) : \E b \in a..Len(p) :
        /\ \A i \in 1..(a - 1) : ReSpace(p[i])
        /\ \A i \in (b + 1)..Len(p) : ReSpace(p[i])
        /\ ~ReSpace(p[a]) /\ ~ReSpace(p[b])
        /\ LET d == IF p[a] \in {"+", "-"} THEN a + 1 ELSE a
           IN  /\ d <= b
               /\ ReDigit(p[d]) /\ ReDigit(p[b])
               /\ \A i \in d..b : ReDigit(p[i]) \/ p[i] = "_"
               /\ \A i \in d..(b - 1) : ~(p[i] = "_" /\ p[i + 1] = "_")

ThreeIntegerComponents(v) ==
    /\ v.t = "str"
    /\ LET parts == split(v.s, ".")
       IN  Len(parts) = 3 /\ \A i \in 1..3 : IntegerLiteral(parts[i])

Wrote == cmd.name \in {"sync", "bump", "set"}

\* every file that exists can be read
Readable(fs) == \A n \in VERSION_FILES : Exists(fs[n]) => ~ReadByName(fs, n).raised

\* C1: after a sync, bump or set that completed successfully, status reads
\* the same version from every existing manifest file and reports
\* "synchronized".
C1_SynchronizedAfterWrite ==
    (Wrote /\ res.outcome = "ok") =>
        LET st == cmd_status(files)
        IN  /\ st.outcome = "ok"
            /\ st.report = "synchronized"
            /\ \A m, n \in DOMAIN st.shown : st.shown[m] = st.shown[n]

\* C2: set with an argument that is not exactly three dot-separated decimal
\* integers exits with status 1 and leaves every manifest file unchanged.
C2_SetRejectsMalformed ==
    (cmd.name = "set" /\ ~StrictXYZ(cmd.arg.s)) =>
        (res.outcome = "exit1" /\ res.exit = 1 /\ files = pre)

\* C3: a bump of a version "X.Y.Z" of non-negative integers computes
\* X.Y.(Z+1) for patch, X.(Y+1).0 for minor and (X+1).0.0 for major, written
\* without leading zeros, and that value is what every manifest file written
\* holds afterwards (Cargo.toml when it had a version line to replace).
C3_BumpTransforms ==
    LET current == read_package_json_version(pre.npm)
    IN  (cmd.name = "bump" /\ ~current.raised /\ current.value.t = "str"
         /\ StrictXYZ(current.value.s)) =>
            /\ res.version.t = "str"
            /\ StrictXYZ(res.version.s)
            /\ \A i \in 1..3 : Canonical(split(res.version.s, ".")[i])
            /\ TripleOf(res.version.s) = ExpectedBump(TripleOf(current.value.s), cmd.kind)
            /\ "npm" \in res.wrote
            /\ \A n \in res.wrote :
                  (n = "tauri_cargo" => ReSearchVersion(pre.tauri_cargo.text).ok)
                  => ReadByName(files, n) = Ret(res.version)

\* C3 witness: bump patch of 0.0.9 wrote 0.0.10 into all three files
C3_Witness ==
    /\ cmd.name = "bump" /\ cmd.kind = "patch"
    /\ res.outcome = "ok"
    /\ read_package_json_version(pre.npm) = Ret(Str(V_0_0_9))
    /\ res.wrote = VERSION_FILES
    /\ \A n \in VERSION_FILES :
          ReadByName(files, n) = Ret(Str(<<"0", ".", "0", ".", "1", "0">>))

\* C4: sync with an explicit target that is not a well-formed X.Y.Z version
\* writes it into no manifest file.
C4_SyncValidatesTarget ==
    (cmd.name = "sync" /\ Truthy(cmd.arg) /\ ~StrictXYZ(cmd.arg.s)) =>
        /\ files = pre
        /\ \A n \in VERSION_FILES :
              (Exists(files[n]) /\ ReadByName(files, n) = Ret(cmd.arg))
              => ReadByName(pre, n) = Ret(cmd.arg)

\* C5: status does not fail whichever manifest files are absent (all of them
\* included); it reports "synchronized" exactly when one distinct version
\* was read, and otherwise "out of sync" with the suggestion to run sync.
C5_StatusToleratesAbsent ==
    (cmd.name = "status" /\ Readable(pre)) =>
        LET names == {n \in VERSION_FILES : Exists(pre[n])}
            values == {ReadByName(pre, n).value : n \in names}
        IN  /\ res.outcome = "ok"
            /\ res.exit = 0
            /\ DOMAIN res.shown = names
            /\ IF Cardinality(values) = 1
               THEN res.report = "synchronized" /\ ~res.suggest
               ELSE res.report = "out_of_sync" /\ res.suggest

\* C9: bump, and sync without a target, fail before any write when
\* package.json is missing, and bump fails before any write when the version
\* read is not three dot-separated integer components: the exit status is
\* not 0 and every manifest file is as it was.
C9_ValidateBeforeWrite ==
    LET current == read_package_json_version(pre.npm)
        bump == cmd.name = "bump"
        plainSync == cmd.name = "sync" /\ ~Truthy(cmd.arg)
    IN  ((bump \/ plainSync) /\
         (\/ ~Exists(pre.npm)
          \/ bump /\ ~current.raised /\ ~ThreeIntegerComponents(current.value))) =>
            /\ res.outcome = "raise"
            /\ res.exit # 0
            /\ res.wrote = {}
            /\ files = pre

\* C9 witness: bump of the two-component version 1.2, with Cargo.toml and
\* tauri.conf.json present and holding another version, failed and wrote
\* nothing
C9_Witness ==
    /\ cmd.name = "bump"
    /\ pre.npm = JsonDoc(Str(V_1_2), "A")
    /\ pre.tauri_cargo = CargoText(CargoTwoVersionLines)
    /\ pre.tauri_conf = JsonDoc(Str(V_0_2_0), "B")
    /\ res.outcome = "raise"
    /\ files = pre

\* the places where a line of the text starts with "version"
VersionLines(text) ==
    {i \in 1..Len(text) :
        /\ LineStart(text, i)
        /\ i + 6 <= Len(text)
        /\ SubSeq(text, i, i + 6) = VERSION}

\* the text with the quoted value that follows place i replaced by v, and
\* every other character as it is
ReplaceQuoted(text, i, v) ==
    LET q1 == SkipNonQuote(text, i)
        q2 == SkipNonQuote(text, q1 + 1)
    IN  SubSeq(text, 1, q1) \o v \o SubSeq(text, q2, Len(text))

\* C10: a version write to Cargo.toml replaces only the quoted value on the
\* first line starting with "version", and does not complete as a success
\* when the file has no such line.
C10_CargoWrite ==
    ("tauri_cargo" \in res.wrote) =>
        LET before == pre.tauri_cargo.text
        IN  /\ VersionLines(before) # {}
            /\ files.tauri_cargo.text =
                  ReplaceQuoted(before, Min(VersionLines(before)), PyFormat(res.version))

----------------------------------------------------------------------------
(* Properties of the Format Reporter (checked under SpecFormats) *)

HasLine(name) == \E i \in 1..Len(fout) : fout[i].line = name

ReportLines ==
    {"rule", "title", "uploader", "duration", "no_formats", "audio_table",
     "audio_row", "video_table", "video_row", "rec_header", "best_pair_title",
     "best_pair", "auto_select", "audio_only"}

RecommendationLines ==
    {"rec_header", "best_pair_title", "best_pair", "auto_select", "audio_only"}

Ended == fpc \in {"done", "crashed"}

\* a descriptor with no video codec and no audio codec
Unclassifiable(f) ==
    /\ f.vcodec \in {Missing, Null, S(NONE)}
    /\ f.acodec \in {Missing, Null, S(NONE)}

DurationOk == Get(fetch.duration, N(0)).k = "num"

\* C6: a fetch that succeeds with no classifiable format gives a report
\* that says no formats were found, no recommendation line, exit status 0.
C6_NoClassifiableFormats ==
    (Ended /\ fetch.kind = "info" /\ DurationOk
     /\ \A i \in 1..Len(fetch.formats) : Unclassifiable(fetch.formats[i])) =>
        /\ HasLine("no_formats")
        /\ \A n \in RecommendationLines : ~HasLine(n)
        /\ fexit = 0

\* height and bitrate with a missing or null value counted as 0
NumOrZero(v) == IF v.k = "num" THEN v.n ELSE 0

AvcVideos ==
    {i \in 1..Len(fetch.formats) :
        /\ ~(fetch.formats[i].vcodec \in {Missing, Null, S(NONE)})
        /\ startswith(fetch.formats[i].vcodec.s, AVC1)}

M4aAudios ==
    {i \in 1..Len(fetch.formats) :
        /\ fetch.formats[i].vcodec \in {Missing, Null, S(NONE)}
        /\ ~(fetch.formats[i].acodec \in {Missing, Null, S(NONE)})
        /\ fetch.formats[i].ext = S(M4A)}

\* C7: for every non-empty list of descriptors (height or bitrate missing or
\* null included) the run ends with the two generic command templates; the
\* combined command is printed exactly when an avc1 video and an m4a audio
\* exist, and names a video of greatest height and an audio of greatest
\* bitrate among them.
C7_Recommendation ==
    (Ended /\ fetch.kind = "info" /\ DurationOk /\ fetch.formats # <<>>) =>
        /\ fpc = "done"
        /\ HasLine("auto_select") /\ HasLine("audio_only")
        /\ HasLine("best_pair") <=> (AvcVideos # {} /\ M4aAudios # {})
        /\ \A i \in 1..Len(fout) :
              fout[i].line = "best_pair" =>
                 /\ \E v \in AvcVideos :
                       /\ fetch.formats[v].format_id.s = fout[i].a
                       /\ \A w \in AvcVideos :
                             NumOrZero(fetch.formats[v].height)
                                >= NumOrZero(fetch.formats[w].height)
                 /\ \E a \in M4aAudios :
                       /\ fetch.formats[a].format_id.s = fout[i].b
                       /\ \A w \in M4aAudios :
                             NumOrZero(fetch.formats[a].abr)
                                >= NumOrZero(fetch.formats[w].abr)

\* C8: when the fetch raises, no line of the format report is printed, the
\* fetch is called once, the run ends with exit status 1, and a message
\* holding "403" gets the 403 hint, whether or not it also holds a login
\* phrase.
C8_FetchFailure ==
    (fetch.kind = "raise") =>
        /\ \A n \in ReportLines : ~HasLine(n)
        /\ fetchCalls = 1
        /\ fpc \in {"fetched", "done"}
        /\ HasLine("error")
        /\ (fpc = "done" => fexit = 1 /\ HasLine("failed"))
        /\ (Contains(fetch.msg, <<"4", "0", "3">>) =>
               HasLine("hint_403"))

\* C8 witness: the fetch raised "Sign in 403" and the run has ended
C8_Witness ==
    /\ fpc = "done"
    /\ fetch = FetchRaise(<<"S", "i", "g", "n", " ", "i", "n", " ", "4", "0", "3">>)
    /\ fexit = 1
    /\ HasLine("hint_403")
    /\ fetchCalls = 1

====
